---- MODULE Spec2Model ----
(***************************************************************************)
(* Model of the autoflip backend (src/main.py): the two request handlers   *)
(* upsert_user and analyze, the completion API and the data store they     *)
(* call, and the Python conversions (json.loads, float, str, truthiness,   *)
(* slicing) the handlers apply to the completion reply.                    *)
(*                                                                         *)
(* Python values are records [t, n, s, items]:                             *)
(*   t = "null" | "bool" | "num" | "str" | "list" | "dict"                 *)
(*   n     the number of a "num", 1/0 for a "bool"                         *)
(*   s     the characters of a "str" (a sequence of 1-character strings)   *)
(*   items the elements of a "list", or the [k, v] entries of a "dict"     *)
(* Numbers are integers: the modelled JSON texts carry no fractions, and   *)
(* float(n) of an integer n is numerically n.                              *)
(***************************************************************************)
EXTENDS Integers, Sequences, FiniteSets, Bags, TLC

(***************************************************************************)
(* Python values                                                           *)
(***************************************************************************)
PyNone == [t |-> "null", n |-> 0, s |-> <<>>, items |-> <<>>]
PyBool(b) == [t |-> "bool", n |-> IF b THEN 1 ELSE 0, s |-> <<>>, items |-> <<>>]
PyNum(k) == [t |-> "num", n |-> k, s |-> <<>>, items |-> <<>>]
PyStr(cs) == [t |-> "str", n |-> 0, s |-> cs, items |-> <<>>]
PyList(vs) == [t |-> "list", n |-> 0, s |-> <<>>, items |-> vs]
PyDict(kvs) == [t |-> "dict", n |-> 0, s |-> <<>>, items |-> kvs]
KV(key, val) == [k |-> key, v |-> val]

\* bool(x): None, False, 0, "", [] and {} are falsy, everything else truthy.
py_truthy(x) ==
    CASE x.t = "null" -> FALSE
      [] x.t = "bool" -> x.n = 1
      [] x.t = "num"  -> x.n # 0
      [] x.t = "str"  -> Len(x.s) > 0
      [] OTHER        -> Len(x.items) > 0

\* d.get(key, dflt) on a dict: the value of the last entry with that key.
RECURSIVE LastIndexOf(_, _, _)
LastIndexOf(kvs, key, i) ==
    IF i = 0 THEN 0
    ELSE IF kvs[i].k = key THEN i
    ELSE LastIndexOf(kvs, key, i - 1)

HasKey(d, key) == LastIndexOf(d.items, key, Len(d.items)) > 0

dict_get(d, key, dflt) ==
    LET i == LastIndexOf(d.items, key, Len(d.items))
    IN  IF i > 0 THEN d.items[i].v ELSE dflt

\* s[:k]
Slice(cs, k) == SubSeq(cs, 1, IF Len(cs) < k THEN Len(cs) ELSE k)

(***************************************************************************)
(* Characters                                                              *)
(***************************************************************************)
Digits == <<"0", "1", "2", "3", "4", "5", "6", "7", "8", "9">>
IsDigit(c) == \E k \in 1..10 : Digits[k] = c
DigitVal(c) == (CHOOSE k \in 1..10 : Digits[k] = c) - 1
IsWS(c) == c \in {" ", "\n", "\t", "\r"}

\* str.strip(): drop leading and trailing whitespace.
RECURSIVE FirstNonWS(_, _)
FirstNonWS(cs, i) ==
    IF i <= Len(cs) /\ IsWS(cs[i]) THEN FirstNonWS(cs, i + 1) ELSE i

RECURSIVE LastNonWS(_, _)
LastNonWS(cs, j) ==
    IF j >= 1 /\ IsWS(cs[j]) THEN LastNonWS(cs, j - 1) ELSE j

py_strip(cs) == SubSeq(cs, FirstNonWS(cs, 1), LastNonWS(cs, Len(cs)))

\* str(n) of an integer.
RECURSIVE NatChars(_)
NatChars(k) ==
    IF k < 10 THEN <<Digits[k + 1]>>
    ELSE NatChars(k \div 10) \o <<Digits[(k % 10) + 1]>>

IntChars(k) == IF k < 0 THEN <<"-">> \o NatChars(-k) ELSE NatChars(k)

(***************************************************************************)
(* json.loads on the JSON subset the modelled replies use: objects,        *)
(* arrays, strings (escapes \" \\ \/ \n \t \r), integers, true, false,     *)
(* null, and whitespace between tokens.  A parse yields                    *)
(* [ok, val, next]: next is the index after the parsed value.              *)
(***************************************************************************)
ParseFail == [ok |-> FALSE, val |-> PyNone, next |-> 0]
Parsed(v, i) == [ok |-> TRUE, val |-> v, next |-> i]

StartsWith(cs, i, lit) ==
    /\ i + Len(lit) - 1 <= Len(cs)
    /\ SubSeq(cs, i, i + Len(lit) - 1) = lit

\* The characters of a string literal whose opening quote is before index i.
RECURSIVE ScanString(_, _, _)
ScanString(cs, i, acc) ==
    IF i > Len(cs) THEN ParseFail
    ELSE IF cs[i] = "\"" THEN Parsed(PyStr(acc), i + 1)
    ELSE IF cs[i] \in {"\n", "\t", "\r"} THEN ParseFail
    ELSE IF cs[i] = "\\" THEN
        IF i + 1 > Len(cs) THEN ParseFail
        ELSE IF cs[i + 1] \in {"\"", "\\", "/"}
            THEN ScanString(cs, i + 2, Append(acc, cs[i + 1]))
        ELSE IF cs[i + 1] = "n" THEN ScanString(cs, i + 2, Append(acc, "\n"))
        ELSE IF cs[i + 1] = "t" THEN ScanString(cs, i + 2, Append(acc, "\t"))
        ELSE IF cs[i + 1] = "r" THEN ScanString(cs, i + 2, Append(acc, "\r"))
        ELSE ParseFail
    ELSE ScanString(cs, i + 1, Append(acc, cs[i]))

\* The digits from index i on: [val, next].
RECURSIVE ScanDigits(_, _, _)
ScanDigits(cs, i, acc) ==
    IF i <= Len(cs) /\ IsDigit(cs[i])
    THEN ScanDigits(cs, i + 1, 10 * acc + DigitVal(cs[i]))
    ELSE [val |-> acc, next |-> i]

\* -?(0|[1-9][0-9]*): a leading 0 ends the number.
ParseNumber(cs, i) ==
    LET neg == cs[i] = "-"
        j == IF neg THEN i + 1 ELSE i
    IN  IF j > Len(cs) \/ ~IsDigit(cs[j]) THEN ParseFail
        ELSE IF cs[j] = "0" THEN Parsed(PyNum(0), j + 1)
        ELSE LET d == ScanDigits(cs, j, 0)
             IN  Parsed(PyNum(IF neg THEN -d.val ELSE d.val), d.next)

RECURSIVE ParseValue(_, _)
RECURSIVE ParseElems(_, _, _)
RECURSIVE ParseMembers(_, _, _)

ParseValue(cs, i) ==
    IF i > Len(cs) THEN ParseFail
    ELSE IF cs[i] = "\"" THEN ScanString(cs, i + 1, <<>>)
    ELSE IF cs[i] = "{" THEN
        LET j == FirstNonWS(cs, i + 1)
        IN  IF j <= Len(cs) /\ cs[j] = "}" THEN Parsed(PyDict(<<>>), j + 1)
            ELSE ParseMembers(cs, j, <<>>)
    ELSE IF cs[i] = "[" THEN
        LET j == FirstNonWS(cs, i + 1)
        IN  IF j <= Len(cs) /\ cs[j] = "]" THEN Parsed(PyList(<<>>), j + 1)
            ELSE ParseElems(cs, j, <<>>)
    ELSE IF StartsWith(cs, i, <<"n", "u", "l", "l">>) THEN Parsed(PyNone, i + 4)
    ELSE IF StartsWith(cs, i, <<"t", "r", "u", "e">>) THEN Parsed(PyBool(TRUE), i + 4)
    ELSE IF StartsWith(cs, i, <<"f", "a", "l", "s", "e">>)
        THEN Parsed(PyBool(FALSE), i + 5)
    ELSE IF cs[i] = "-" \/ IsDigit(cs[i]) THEN ParseNumber(cs, i)
    ELSE ParseFail

\* Array elements from index i (the start of an element) to the closing ].
ParseElems(cs, i, acc) ==
    LET e == ParseValue(cs, i)
    IN  IF ~e.ok THEN ParseFail
        ELSE LET j == FirstNonWS(cs, e.next)
                 acc2 == Append(acc, e.val)
             IN  IF j > Len(cs) THEN ParseFail
                 ELSE IF cs[j] = "]" THEN Parsed(PyList(acc2), j + 1)
                 ELSE IF cs[j] = "," THEN ParseElems(cs, FirstNonWS(cs, j + 1), acc2)
                 ELSE ParseFail

\* Object members from index i (the opening quote of a key) to the closing }.
ParseMembers(cs, i, acc) ==
    IF i > Len(cs) \/ cs[i] # "\"" THEN ParseFail
    ELSE LET key == ScanString(cs, i + 1, <<>>)
         IN  IF ~key.ok THEN ParseFail
             ELSE LET c == FirstNonWS(cs, key.next)
                  IN  IF c > Len(cs) \/ cs[c] # ":" THEN ParseFail
                      ELSE LET e == ParseValue(cs, FirstNonWS(cs, c + 1))
                           IN  IF ~e.ok THEN ParseFail
                               ELSE LET j == FirstNonWS(cs, e.next)
                                        acc2 == Append(acc, KV(key.val.s, e.val))
                                    IN  IF j > Len(cs) THEN ParseFail
                                        ELSE IF cs[j] = "}"
                                            THEN Parsed(PyDict(acc2), j + 1)
                                        ELSE IF cs[j] = ","
                                            THEN ParseMembers(cs, FirstNonWS(cs, j + 1), acc2)
                                        ELSE ParseFail

\* json.loads(cs): [ok, val]; ok = FALSE stands for the JSONDecodeError it
\* raises (no value, or data after the value).
json_loads(cs) ==
    LET r == ParseValue(cs, FirstNonWS(cs, 1))
    IN  IF r.ok /\ FirstNonWS(cs, r.next) > Len(cs)
        THEN [ok |-> TRUE, val |-> r.val]
        ELSE [ok |-> FALSE, val |-> PyNone]

(***************************************************************************)
(* float(x) and str(x)                                                     *)
(***************************************************************************)
\* float(x): [ok, n]; ok = FALSE stands for the TypeError (None, list, dict)
\* or ValueError (a string that is no number) it raises.  A string is
\* stripped and read as [+-]digits.
py_float(x) ==
    CASE x.t \in {"num", "bool"} -> [ok |-> TRUE, n |-> x.n]
      [] x.t = "str" ->
            LET cs == py_strip(x.s)
                signed == Len(cs) > 0 /\ cs[1] \in {"-", "+"}
                j == IF signed THEN 2 ELSE 1
                d == ScanDigits(cs, j, 0)
            IN  IF j <= Len(cs) /\ d.next = Len(cs) + 1
                THEN [ok |-> TRUE,
                      n |-> IF signed /\ cs[1] = "-" THEN -d.val ELSE d.val]
                ELSE [ok |-> FALSE, n |-> 0]
      [] OTHER -> [ok |-> FALSE, n |-> 0]

\* ', '.join(parts)
RECURSIVE JoinComma(_)
JoinComma(parts) ==
    IF Len(parts) = 0 THEN <<>>
    ELSE IF Len(parts) = 1 THEN parts[1]
    ELSE parts[1] \o <<",", " ">> \o JoinComma(Tail(parts))

\* repr(x): as str(x), but a string is quoted.
RECURSIVE py_repr(_)
py_repr(x) ==
    CASE x.t = "null" -> <<"N", "o", "n", "e">>
      [] x.t = "bool" -> IF x.n = 1 THEN <<"T", "r", "u", "e">>
                         ELSE <<"F", "a", "l", "s", "e">>
      [] x.t = "num"  -> IntChars(x.n)
      [] x.t = "str"  -> <<"'">> \o x.s \o <<"'">>
      [] x.t = "list" ->
            <<"[">> \o JoinComma([k \in 1..Len(x.items) |-> py_repr(x.items[k])])
                    \o <<"]">>
      [] OTHER ->
            <<"{">> \o JoinComma([k \in 1..Len(x.items) |->
                            <<"'">> \o x.items[k].k \o <<"'", ":", " ">>
                                    \o py_repr(x.items[k].v)])
                    \o <<"}">>

py_str(x) == IF x.t = "str" THEN x.s ELSE py_repr(x)

(***************************************************************************)
(* json.dumps: the text of a value, as the completion API or an HTTP       *)
(* client writes it (", " and ": " separators).                            *)
(***************************************************************************)
RECURSIVE EscapeChars(_)
EscapeChars(cs) ==
    IF Len(cs) = 0 THEN <<>>
    ELSE (CASE cs[1] \in {"\"", "\\"} -> <<"\\", cs[1]>>
            [] cs[1] = "\n" -> <<"\\", "n">>
            [] cs[1] = "\t" -> <<"\\", "t">>
            [] cs[1] = "\r" -> <<"\\", "r">>
            [] OTHER -> <<cs[1]>>) \o EscapeChars(Tail(cs))

Quoted(cs) == <<"\"">> \o EscapeChars(cs) \o <<"\"">>

RECURSIVE json_dumps(_)
json_dumps(x) ==
    CASE x.t = "null" -> <<"n", "u", "l", "l">>
      [] x.t = "bool" -> IF x.n = 1 THEN <<"t", "r", "u", "e">>
                         ELSE <<"f", "a", "l", "s", "e">>
      [] x.t = "num"  -> IntChars(x.n)
      [] x.t = "str"  -> Quoted(x.s)
      [] x.t = "list" ->
            <<"[">> \o JoinComma([k \in 1..Len(x.items) |-> json_dumps(x.items[k])])
                    \o <<"]">>
      [] OTHER ->
            <<"{">> \o JoinComma([k \in 1..Len(x.items) |->
                            Quoted(x.items[k].k) \o <<":", " ">>
                                \o json_dumps(x.items[k].v)])
                    \o <<"}">>

(***************************************************************************)
(* Names used by the handlers                                              *)
(***************************************************************************)
KeyEmail == <<"e", "m", "a", "i", "l">>
KeyName == <<"n", "a", "m", "e">>
KeyUserEmail == <<"u", "s", "e", "r", "_", "e", "m", "a", "i", "l">>
KeyLotUrl == <<"l", "o", "t", "_", "u", "r", "l">>
KeyAuctioneer == <<"a", "u", "c", "t", "i", "o", "n", "e", "e", "r">>
KeyCarTitle == <<"c", "a", "r", "_", "t", "i", "t", "l", "e">>
KeyYear == <<"y", "e", "a", "r">>
KeyKm == <<"k", "m">>
KeyConditionNotes ==
    <<"c", "o", "n", "d", "i", "t", "i", "o", "n", "_", "n", "o", "t", "e", "s">>
KeyExtra == <<"e", "x", "t", "r", "a">>
KeyScore == <<"s", "c", "o", "r", "e">>
KeyRecommendedBid ==
    <<"r", "e", "c", "o", "m", "m", "e", "n", "d", "e", "d", "_", "b", "i", "d">>
KeyMargin == <<"m", "a", "r", "g", "i", "n">>
KeyRiskLevel == <<"r", "i", "s", "k", "_", "l", "e", "v", "e", "l">>
KeyReasoning == <<"r", "e", "a", "s", "o", "n", "i", "n", "g">>

\* The literals of the fallback dict, and the defaults of the data.get calls.
FallbackScore == 60
FallbackBid == 30000
FallbackMargin == 15
FallbackRisk == <<"M", "E", "D", "I", "U", "M">>
FallbackLen == 500
DefaultScore == 60
DefaultBid == 30000
DefaultMargin == 15
DefaultRisk == <<"M", "E", "D", "I", "U", "M">>

(***************************************************************************)
(* AnalyzeInput: the request body FastAPI validates before analyze runs.   *)
(* user_email is a required str; the six lot fields are Optional[str] and  *)
(* extra is Optional[dict], None when absent.  A body that fails           *)
(* validation is answered 422 by the framework and analyze is not called.  *)
(***************************************************************************)
OptionalOk(raw, key, type) ==
    dict_get(raw, key, PyNone).t \in {"null", type}

AnalyzeInput(raw) ==
    [ok |-> /\ HasKey(raw, KeyUserEmail)
            /\ dict_get(raw, KeyUserEmail, PyNone).t = "str"
            /\ \A key \in {KeyLotUrl, KeyAuctioneer, KeyCarTitle, KeyYear, KeyKm,
                           KeyConditionNotes} : OptionalOk(raw, key, "str")
            /\ OptionalOk(raw, KeyExtra, "dict"),
     body |-> [user_email |-> dict_get(raw, KeyUserEmail, PyNone),
               lot_url |-> dict_get(raw, KeyLotUrl, PyNone),
               auctioneer |-> dict_get(raw, KeyAuctioneer, PyNone),
               car_title |-> dict_get(raw, KeyCarTitle, PyNone),
               year |-> dict_get(raw, KeyYear, PyNone),
               km |-> dict_get(raw, KeyKm, PyNone),
               condition_notes |-> dict_get(raw, KeyConditionNotes, PyNone),
               extra |-> dict_get(raw, KeyExtra, PyNone)]]

NoBody ==
    [user_email |-> PyNone, lot_url |-> PyNone, auctioneer |-> PyNone,
     car_title |-> PyNone, year |-> PyNone, km |-> PyNone,
     condition_notes |-> PyNone, extra |-> PyNone]

\* The six lot fields as the f-string of the user message interpolates them.
Messages(b) ==
    [model |-> "gpt-4o-mini",
     lote |-> py_str(b.lot_url),
     leiloeiro |-> py_str(b.auctioneer),
     veiculo |-> py_str(b.car_title),
     ano |-> py_str(b.year),
     km |-> py_str(b.km),
     condicoes |-> py_str(b.condition_notes)]

(***************************************************************************)
(* analyze, steps 2 and 3: parse the reply, normalise, build the row       *)
(***************************************************************************)
\* The fallback dict of the except branch.
FallbackData(cs) ==
    PyDict(<<KV(KeyScore, PyNum(FallbackScore)),
             KV(KeyRecommendedBid, PyNum(FallbackBid)),
             KV(KeyMargin, PyNum(FallbackMargin)),
             KV(KeyRiskLevel, PyStr(FallbackRisk)),
             KV(KeyReasoning, PyStr(Slice(cs, FallbackLen)))>>)

\* try: data = json.loads(content) / except Exception: data = {...}
ParseReply(cs) ==
    LET p == json_loads(cs)
    IN  IF p.ok THEN p.val ELSE FallbackData(cs)

NoResult ==
    [score |-> 0, recommended_bid |-> 0, margin |-> 0,
     risk_level |-> <<>>, reasoning |-> <<>>]

\* (Variant with another default for margin.)
Normalise_marginDefault(data) ==
    IF data.t # "dict" THEN [ok |-> FALSE, res |-> NoResult]
    ELSE LET sc == py_float(dict_get(data, KeyScore, PyNum(DefaultScore)))
             bid == py_float(dict_get(data, KeyRecommendedBid, PyNum(DefaultBid)))
             mg == py_float(dict_get(data, KeyMargin, PyNum(0)))
         IN  [ok |-> sc.ok /\ bid.ok /\ mg.ok,
              res |-> [score |-> sc.n, recommended_bid |-> bid.n, margin |-> mg.n,
                       risk_level |->
                           py_str(dict_get(data, KeyRiskLevel, PyStr(DefaultRisk))),
                       reasoning |-> py_str(dict_get(data, KeyReasoning, PyStr(<<>>)))]]

\* The five conversions under "normaliza tipos": [ok, res].  ok = FALSE
\* stands for the exception that leaves analyze: data.get on a value that is
\* no dict (AttributeError), or float() of a value it rejects.
Normalise(data) ==
    IF data.t # "dict" THEN [ok |-> FALSE, res |-> NoResult]
    ELSE LET sc == py_float(dict_get(data, KeyScore, PyNum(DefaultScore)))
             bid == py_float(dict_get(data, KeyRecommendedBid, PyNum(DefaultBid)))
             mg == py_float(dict_get(data, KeyMargin, PyNum(DefaultMargin)))
         IN  [ok |-> sc.ok /\ bid.ok /\ mg.ok,
              res |-> [score |-> sc.n, recommended_bid |-> bid.n, margin |-> mg.n,
                       risk_level |->
                           py_str(dict_get(data, KeyRiskLevel, PyStr(DefaultRisk))),
                       reasoning |-> py_str(dict_get(data, KeyReasoning, PyStr(<<>>)))]]

\* (Variant with score and margin exchanged.)
insert_payload_swapped(b, res) ==
    [user_email |-> b.user_email,
     lot_url |-> b.lot_url,
     auctioneer |-> b.auctioneer,
     car_title |-> b.car_title,
     raw_input |-> [year |-> b.year, km |-> b.km,
                    condition_notes |-> b.condition_notes,
                    extra |-> b.extra,
                    ai_reasoning |-> res.reasoning],
     score |-> res.margin,
     recommended_bid |-> res.recommended_bid,
     margin |-> res.score,
     risk_level |-> res.risk_level]

\* insert_payload: the request's fields joined with the result's.
insert_payload(b, res) ==
    [user_email |-> b.user_email,
     lot_url |-> b.lot_url,
     auctioneer |-> b.auctioneer,
     car_title |-> b.car_title,
     raw_input |-> [year |-> b.year, km |-> b.km,
                    condition_notes |-> b.condition_notes,
                    extra |-> b.extra,
                    ai_reasoning |-> res.reasoning],
     score |-> res.score,
     recommended_bid |-> res.recommended_bid,
     margin |-> res.margin,
     risk_level |-> res.risk_level]

(***************************************************************************)
(* upsert_user helpers                                                     *)
(***************************************************************************)
\* (Variant that tests only the key's presence.)
EmailMissing_keyOnly(payload) == ~HasKey(payload, KeyEmail)

\* email = payload.get("email"); if not email

EmailMissing(payload) == ~py_truthy(dict_get(payload, KeyEmail, PyNone))

\* (Variant that drops the name.)
upsert_row_noName(payload) ==
    [email |-> dict_get(payload, KeyEmail, PyNone), name |-> PyNone]

\* {"email": email, "name": payload.get("name")}

upsert_row(payload) ==
    [email |-> dict_get(payload, KeyEmail, PyNone),
     name |-> dict_get(payload, KeyName, PyNone)]

(***************************************************************************)
(* Bounds and inputs                                                       *)
(***************************************************************************)
NumReqs == 2          \* requests in flight at once
LongLen == 501        \* length of the longest non-JSON reply

Reqs == 1..NumReqs

Chars(k, c) == [i \in 1..k |-> c]

\* Request bodies of POST /analyze, as the JSON objects a client sends.
RawFull ==
    PyDict(<<KV(KeyUserEmail, PyStr(<<"a", "@", "x">>)),
             KV(KeyLotUrl, PyStr(<<"u", "1">>)),
             KV(KeyAuctioneer, PyStr(<<"L", "1">>)),
             KV(KeyCarTitle, PyStr(<<"G", "o", "l">>)),
             KV(KeyYear, PyStr(<<"2", "0", "1", "9">>)),
             KV(KeyKm, PyStr(<<"9", "0">>)),
             KV(KeyConditionNotes, PyStr(<<"o", "k">>)),
             KV(KeyExtra, PyDict(<<KV(<<"k">>, PyNum(1))>>))>>)
RawMinimal == PyDict(<<KV(KeyUserEmail, PyStr(<<"b", "@", "y">>))>>)
RawEmptyEmail ==
    PyDict(<<KV(KeyUserEmail, PyStr(<<>>)), KV(KeyLotUrl, PyStr(<<"u", "2">>))>>)
RawNoEmail == PyDict(<<KV(KeyLotUrl, PyStr(<<"u", "3">>))>>)
RawNullEmail == PyDict(<<KV(KeyUserEmail, PyNone)>>)

AnalyzeBodies == {RawFull, RawMinimal, RawEmptyEmail, RawNoEmail, RawNullEmail}

\* Payloads of POST /users/upsert.
UpsertPayloads ==
    {PyDict(<<KV(KeyEmail, PyStr(<<"a", "@", "x">>)), KV(KeyName, PyStr(<<"A", "n", "a">>))>>),
     PyDict(<<KV(KeyEmail, PyStr(<<"a", "@", "x">>))>>),
     PyDict(<<KV(KeyEmail, PyStr(<<>>)), KV(KeyName, PyStr(<<"B", "e", "a">>))>>),
     PyDict(<<KV(KeyName, PyStr(<<"C", "y">>))>>)}

\* Outcomes of the completion call: it raises, it returns a message without
\* content, or it returns a message with text.
ReplyRaise == [kind |-> "raise", text |-> <<>>]
ReplyNoContent == [kind |-> "nocontent", text |-> <<>>]
TextReply(cs) == [kind |-> "text", text |-> cs]

\* The five keys the prompt asks for, and a well-typed value for each.
ReplyKeys == <<KeyScore, KeyRecommendedBid, KeyMargin, KeyRiskLevel, KeyReasoning>>
AllKeys == {ReplyKeys[i] : i \in 1..Len(ReplyKeys)}
Sample ==
    [score |-> 85, recommended_bid |-> 45000, margin |-> 20,
     risk_level |-> <<"H", "I", "G", "H">>,
     reasoning |-> <<"s", "t", "r", "o", "n", "g", " ", "d", "e", "m", "a", "n", "d">>]
SampleValue(key) ==
    CASE key = KeyScore -> PyNum(Sample.score)
      [] key = KeyRecommendedBid -> PyNum(Sample.recommended_bid)
      [] key = KeyMargin -> PyNum(Sample.margin)
      [] key = KeyRiskLevel -> PyStr(Sample.risk_level)
      [] OTHER -> PyStr(Sample.reasoning)

\* The JSON object holding the keys of S, and the reply that carries it
\* (with the newline and space a model's text often has around it).
RECURSIVE ObjectItems(_, _)
ObjectItems(S, i) ==
    IF i > Len(ReplyKeys) THEN <<>>
    ELSE (IF ReplyKeys[i] \in S THEN <<KV(ReplyKeys[i], SampleValue(ReplyKeys[i]))>>
          ELSE <<>>) \o ObjectItems(S, i + 1)

ObjectReply(S) ==
    TextReply(<<"\n">> \o json_dumps(PyDict(ObjectItems(S, 1))) \o <<" ">>)

\* A second object with all five keys: other values, another key order, a
\* key the prompt did not ask for, no whitespace around it.
Alt ==
    [score |-> 0, recommended_bid |-> 1200, margin |-> -5,
     risk_level |-> <<"L", "O", "W">>,
     reasoning |-> <<"n", "o", " ", "\"", "m", "a", "r", "g", "i", "n", "\"">>]
AltReply ==
    TextReply(json_dumps(PyDict(<<KV(KeyReasoning, PyStr(Alt.reasoning)),
                                  KV(KeyRiskLevel, PyStr(Alt.risk_level)),
                                  KV(<<"n", "o", "t", "e">>, PyList(<<PyNum(1), PyNone>>)),
                                  KV(KeyMargin, PyNum(Alt.margin)),
                                  KV(KeyRecommendedBid, PyNum(Alt.recommended_bid)),
                                  KV(KeyScore, PyNum(Alt.score))>>)))

ProseText == <<"I", " ", "t", "h", "i", "n", "k", " ", "s", "o", ".">>
PrefixedText ==
    <<"J", "S", "O", "N", ":", "\n">> \o json_dumps(PyDict(ObjectItems(AllKeys, 1)))

\* Replies that json.loads rejects.
NonJsonReplies ==
    {TextReply(ProseText), TextReply(<<" ">> \o ProseText \o <<"\n">>),
     TextReply(PrefixedText), TextReply(<<>>),
     TextReply(Chars(LongLen, "x")), TextReply(<<"{", "\"", "s", "\"", ":", "}">>)}

\* Replies that are JSON, but no object.
WrongShapeReplies ==
    {TextReply(json_dumps(PyList(<<>>))),
     TextReply(json_dumps(PyList(<<PyDict(ObjectItems(AllKeys, 1))>>))),
     TextReply(json_dumps(PyNum(42))),
     TextReply(json_dumps(PyStr(ProseText))),
     TextReply(json_dumps(PyNone)),
     TextReply(json_dumps(PyBool(TRUE)))}

\* Objects with a value of another type under an expected key.
OddTypedReplies ==
    {TextReply(json_dumps(PyDict(<<KV(KeyScore, PyStr(<<"e", "i", "g", "h", "t", "y">>))>>))),
     TextReply(json_dumps(PyDict(<<KV(KeyMargin, PyNone)>>))),
     TextReply(json_dumps(PyDict(<<KV(KeyRecommendedBid, PyList(<<PyNum(1)>>))>>))),
     TextReply(json_dumps(PyDict(<<KV(KeyScore, PyStr(<<"7", "0">>)),
                                   KV(KeyRiskLevel, PyNum(3)),
                                   KV(KeyReasoning, PyNone)>>)))}

ObjectReplies == {ObjectReply(S) : S \in SUBSET AllKeys} \cup {AltReply}

\* Replies of the single-request specification, and of the concurrent one.
AllReplies ==
    {ReplyRaise, ReplyNoContent} \cup ObjectReplies \cup NonJsonReplies
        \cup WrongShapeReplies \cup OddTypedReplies
FewReplies ==
    {ReplyRaise, ReplyNoContent, ObjectReply(AllKeys),
     ObjectReply(AllKeys \ {KeyMargin}), TextReply(ProseText),
     TextReply(json_dumps(PyList(<<>>)))}

\* Outcomes of a store call: execute() returns no error, returns an error,
\* or raises.
StoreOk == [kind |-> "ok", error |-> PyNone]
StoreError == [kind |-> "error", error |-> PyStr(<<"d", "e", "n", "i", "e", "d">>)]
StoreRaise == [kind |-> "raise", error |-> PyNone]
StoreOutcomes == {StoreOk, StoreError, StoreRaise}

(***************************************************************************)
(* State                                                                   *)
(***************************************************************************)
VARIABLES
    pc,             \* r -> "idle" | "await_completion" | "await_insert"
                    \*      | "await_upsert" | "done"
    op,             \* r -> "none" | "health" | "analyze" | "upsert"
    request,        \* r -> the JSON body the client sent
    body,           \* r -> analyze's validated AnalyzeInput
    reply,          \* r -> the outcome of r's completion call
    content,        \* r -> analyze's local content
    result,         \* r -> analyze's locals score .. reasoning
    response,       \* r -> the HTTP response [status, detail, result]
    storeOutcome,   \* r -> the outcome of r's store call
    completionLog,  \* r -> the completion calls r made
    insertLog,      \* r -> the rows r handed to analyses.insert
    upsertLog,      \* r -> the rows r handed to users.upsert
    analyses,       \* the analyses table: a bag of rows
    users           \* the users table: rows with unique email

vars == <<pc, op, request, body, reply, content, result, response, storeOutcome,
          completionLog, insertLog, upsertLog, analyses, users>>

NoReply == [kind |-> "none", text |-> <<>>]
\* HTTP responses: none yet; an error with its detail (the HTTPException of the
\* handler, the 422 of body validation, the 500 of an unhandled exception);
\* {"ok": true}; {"status": "ok", "service": "autoflip-backend"}; an
\* AnalyzeOutput.
NoResponse == [status |-> 0, kind |-> "none", detail |-> "", result |-> NoResult]
ErrorResponse(status, detail) ==
    [status |-> status, kind |-> "error", detail |-> detail, result |-> NoResult]
AckResponse == [status |-> 200, kind |-> "ack", detail |-> "", result |-> NoResult]
HealthResponse == [status |-> 200, kind |-> "health", detail |-> "", result |-> NoResult]
AnalyzeOutput(res) == [status |-> 200, kind |-> "analysis", detail |-> "", result |-> res]
ValidationError == ErrorResponse(422, "validation error")
Unhandled == ErrorResponse(500, "Internal Server Error")

Init ==
    /\ pc = [r \in Reqs |-> "idle"]
    /\ op = [r \in Reqs |-> "none"]
    /\ request = [r \in Reqs |-> PyNone]
    /\ body = [r \in Reqs |-> NoBody]
    /\ reply = [r \in Reqs |-> NoReply]
    /\ content = [r \in Reqs |-> <<>>]
    /\ result = [r \in Reqs |-> NoResult]
    /\ response = [r \in Reqs |-> NoResponse]
    /\ storeOutcome = [r \in Reqs |-> "none"]
    /\ completionLog = [r \in Reqs |-> <<>>]
    /\ insertLog = [r \in Reqs |-> <<>>]
    /\ upsertLog = [r \in Reqs |-> <<>>]
    /\ analyses = EmptyBag
    /\ users = {}

\* The handler of r ends with this response.
Finish(r, resp) ==
    /\ pc' = [pc EXCEPT ![r] = "done"]
    /\ response' = [response EXCEPT ![r] = resp]

(***************************************************************************)
(* GET /health                                                             *)
(***************************************************************************)
Health(r) ==
    /\ pc[r] = "idle"
    /\ op' = [op EXCEPT ![r] = "health"]
    /\ Finish(r, HealthResponse)
    /\ UNCHANGED <<request, body, reply, content, result, storeOutcome,
                   completionLog, insertLog, upsertLog, analyses, users>>

(***************************************************************************)
(* POST /users/upsert                                                      *)
(***************************************************************************)
\* upsert_user up to the store call.
UpsertStart(r, payload) ==
    /\ pc[r] = "idle"
    /\ op' = [op EXCEPT ![r] = "upsert"]
    /\ request' = [request EXCEPT ![r] = payload]
    /\ IF EmailMissing(payload)
       THEN /\ Finish(r, ErrorResponse(400, "email is required"))
            /\ UNCHANGED upsertLog
       ELSE /\ pc' = [pc EXCEPT ![r] = "await_upsert"]
            /\ upsertLog' = [upsertLog EXCEPT ![r] = Append(@, upsert_row(payload))]
            /\ UNCHANGED response
    /\ UNCHANGED <<body, reply, content, result, storeOutcome, completionLog,
                   insertLog, analyses, users>>

\* The store answers the upsert; upsert_user from "if error" on.
UpsertReturns(r, o) ==
    /\ pc[r] = "await_upsert"
    /\ storeOutcome' = [storeOutcome EXCEPT ![r] = o.kind]
    /\ LET row == upsertLog[r][Len(upsertLog[r])]
       IN  users' = IF o.kind = "ok"
                    THEN {u \in users : u.email # row.email} \cup {row}
                    ELSE users
    /\ IF o.kind = "raise" THEN Finish(r, Unhandled)
       ELSE IF py_truthy(o.error) THEN Finish(r, ErrorResponse(500, "supabase error"))
       ELSE Finish(r, AckResponse)
    /\ UNCHANGED <<op, request, body, reply, content, result, completionLog,
                   insertLog, upsertLog, analyses>>

(***************************************************************************)
(* POST /analyze                                                           *)
(***************************************************************************)
\* Body validation, the user_email check, the prompt and the completion call.
AnalyzeStart(r, raw) ==
    /\ pc[r] = "idle"
    /\ op' = [op EXCEPT ![r] = "analyze"]
    /\ request' = [request EXCEPT ![r] = raw]
    /\ LET v == AnalyzeInput(raw)
       IN  IF ~v.ok
           THEN /\ Finish(r, ValidationError)
                /\ UNCHANGED <<body, completionLog>>
           ELSE IF ~py_truthy(v.body.user_email)
           THEN /\ Finish(r, ErrorResponse(400, "user_email is required"))
                /\ body' = [body EXCEPT ![r] = v.body]
                /\ UNCHANGED completionLog
           ELSE /\ pc' = [pc EXCEPT ![r] = "await_completion"]
                /\ body' = [body EXCEPT ![r] = v.body]
                /\ completionLog' =
                       [completionLog EXCEPT ![r] = Append(@, Messages(v.body))]
                /\ UNCHANGED response
    /\ UNCHANGED <<reply, content, result, storeOutcome, insertLog, upsertLog,
                   analyses, users>>

\* (Variant that reads the body of request 1 whatever r is, as a handler
\* keeping the body in a module-level name would.)
HandleContent_sharedBody(r, cs) ==
    LET nz == Normalise(ParseReply(cs))
    IN  /\ content' = [content EXCEPT ![r] = cs]
        /\ IF nz.ok
           THEN /\ result' = [result EXCEPT ![r] = nz.res]
                /\ insertLog' =
                       [insertLog EXCEPT ![r] = Append(@, insert_payload(body[1], nz.res))]
                /\ pc' = [pc EXCEPT ![r] = "await_insert"]
                /\ UNCHANGED response
           ELSE /\ Finish(r, Unhandled)
                /\ UNCHANGED <<result, insertLog>>

\* analyze from "import json" to the insert call, with content = cs.
HandleContent(r, cs) ==
    LET nz == Normalise(ParseReply(cs))
    IN  /\ content' = [content EXCEPT ![r] = cs]
        /\ IF nz.ok
           THEN /\ result' = [result EXCEPT ![r] = nz.res]
                /\ insertLog' =
                       [insertLog EXCEPT ![r] = Append(@, insert_payload(body[r], nz.res))]
                /\ pc' = [pc EXCEPT ![r] = "await_insert"]
                /\ UNCHANGED response
           ELSE /\ Finish(r, Unhandled)
                /\ UNCHANGED <<result, insertLog>>

\* (Variant whose except branch goes on with an empty content.)
CompletionFails_swallowed(r, rep) ==
    /\ pc[r] = "await_completion"
    /\ rep.kind \in {"raise", "nocontent"}
    /\ reply' = [reply EXCEPT ![r] = rep]
    /\ HandleContent(r, <<>>)
    /\ UNCHANGED <<op, request, body, storeOutcome, completionLog, upsertLog,
                   analyses, users>>

\* The completion call raises, or .strip() raises on a missing content:
\* the except branch.
CompletionFails(r, rep) ==
    /\ pc[r] = "await_completion"
    /\ rep.kind \in {"raise", "nocontent"}
    /\ reply' = [reply EXCEPT ![r] = rep]
    /\ Finish(r, ErrorResponse(500, "OpenAI error"))
    /\ UNCHANGED <<op, request, body, content, result, storeOutcome, completionLog,
                   insertLog, upsertLog, analyses, users>>

\* The completion call returns text: analyze runs on to the insert call.
CompletionReturns(r, rep) ==
    /\ pc[r] = "await_completion"
    /\ rep.kind = "text"
    /\ reply' = [reply EXCEPT ![r] = rep]
    /\ HandleContent(r, py_strip(rep.text))
    /\ UNCHANGED <<op, request, body, storeOutcome, completionLog, upsertLog,
                   analyses, users>>

\* The store answers the insert; analyze from "if error" on.  failed is the
\* truth value of error.
InsertAnswered(r, o, failed) ==
    /\ pc[r] = "await_insert"
    /\ storeOutcome' = [storeOutcome EXCEPT ![r] = o.kind]
    /\ analyses' = IF o.kind = "ok"
                   THEN analyses (+) SetToBag({insertLog[r][Len(insertLog[r])]})
                   ELSE analyses
    /\ IF o.kind = "raise" THEN Finish(r, Unhandled)
       ELSE IF failed THEN Finish(r, ErrorResponse(500, "supabase insert error"))
       ELSE Finish(r, AnalyzeOutput(result[r]))
    /\ UNCHANGED <<op, request, body, reply, content, result, completionLog,
                   insertLog, upsertLog, users>>

\* (Variant that does not test error.)
InsertReturns_errorIgnored(r, o) == InsertAnswered(r, o, FALSE)

\* (Variant that issues the insert once more when the first one fails.)
InsertReturns_retried(r, o) ==
    IF o.kind # "ok" /\ Len(insertLog[r]) < 2
    THEN /\ pc[r] = "await_insert"
         /\ insertLog' = [insertLog EXCEPT ![r] = Append(@, @[Len(@)])]
         /\ UNCHANGED <<pc, op, request, body, reply, content, result, response,
                        storeOutcome, completionLog, upsertLog, analyses, users>>
    ELSE InsertAnswered(r, o, py_truthy(o.error))

InsertReturns(r, o) == InsertAnswered(r, o, py_truthy(o.error))

(***************************************************************************)
(* Specifications                                                          *)
(***************************************************************************)
\* NumReqs requests handled concurrently (FastAPI runs the def handlers on
\* a thread pool), each step one handler's run to its next blocking call.
Next ==
    \E r \in Reqs :
        \/ Health(r)
        \/ \E payload \in UpsertPayloads : UpsertStart(r, payload)
        \/ \E o \in StoreOutcomes : UpsertReturns(r, o)
        \/ \E raw \in AnalyzeBodies : AnalyzeStart(r, raw)
        \/ \E rep \in FewReplies : CompletionFails(r, rep)
        \/ \E rep \in FewReplies : CompletionReturns(r, rep)
        \/ \E o \in StoreOutcomes : InsertReturns(r, o)

Spec == Init /\ [][Next]_vars

\* One request, over every modelled reply.
NextSingle ==
    \/ Health(1)
    \/ \E payload \in UpsertPayloads : UpsertStart(1, payload)
    \/ \E o \in StoreOutcomes : UpsertReturns(1, o)
    \/ \E raw \in AnalyzeBodies : AnalyzeStart(1, raw)
    \/ \E rep \in AllReplies : CompletionFails(1, rep)
    \/ \E rep \in AllReplies : CompletionReturns(1, rep)
    \/ \E o \in StoreOutcomes : InsertReturns(1, o)

SpecSingle == Init /\ [][NextSingle]_vars

TypeOK ==
    \A r \in Reqs :
        /\ pc[r] \in {"idle", "await_completion", "await_insert", "await_upsert", "done"}
        /\ op[r] \in {"none", "health", "analyze", "upsert"}
        /\ response[r].status \in {0, 200, 400, 422, 500}
        /\ response[r].kind \in {"none", "error", "ack", "health", "analysis"}
        /\ storeOutcome[r] \in {"none", "ok", "error", "raise"}

(***************************************************************************)
(* What the specification document expects, stated without the handlers'   *)
(* own operators                                                           *)
(***************************************************************************)
Field(r, key) == dict_get(request[r], key, PyNone)

FirstChars(cs, k) == [i \in 1..(IF Len(cs) < k THEN Len(cs) ELSE k) |-> cs[i]]

\* The fixed default record, with the first 500 characters of the text.
ExpectedFallback(cs) ==
    [score |-> 60, recommended_bid |-> 30000, margin |-> 15,
     risk_level |-> <<"M", "E", "D", "I", "U", "M">>,
     reasoning |-> FirstChars(cs, 500)]

\* The record for a reply object holding the keys of S with the Sample
\* values: the reply's value for a key of S, the static default otherwise.
ExpectedObject(S) ==
    [score |-> IF KeyScore \in S THEN Sample.score ELSE 60,
     recommended_bid |-> IF KeyRecommendedBid \in S THEN Sample.recommended_bid ELSE 30000,
     margin |-> IF KeyMargin \in S THEN Sample.margin ELSE 15,
     risk_level |-> IF KeyRiskLevel \in S THEN Sample.risk_level
                    ELSE <<"M", "E", "D", "I", "U", "M">>,
     reasoning |-> IF KeyReasoning \in S THEN Sample.reasoning ELSE <<>>]

\* <<reply, expected record>> for the replies that are objects of well-typed
\* values, for those with all five keys, and for those that are no JSON.
ObjectWants == {<<ObjectReply(S), ExpectedObject(S)>> : S \in SUBSET AllKeys}
FullWants == {<<ObjectReply(AllKeys), Sample>>, <<AltReply, Alt>>}
NonJsonWants == {<<rep, ExpectedFallback(py_strip(rep.text))>> : rep \in NonJsonReplies}
Wants == ObjectWants \cup FullWants \cup NonJsonWants

\* The row the document expects r to insert, given r's expected record.
ExpectedRow(r, want) ==
    [user_email |-> Field(r, KeyUserEmail),
     lot_url |-> Field(r, KeyLotUrl),
     auctioneer |-> Field(r, KeyAuctioneer),
     car_title |-> Field(r, KeyCarTitle),
     raw_input |-> [year |-> Field(r, KeyYear), km |-> Field(r, KeyKm),
                    condition_notes |-> Field(r, KeyConditionNotes),
                    extra |-> Field(r, KeyExtra),
                    ai_reasoning |-> want.reasoning],
     score |-> want.score,
     recommended_bid |-> want.recommended_bid,
     margin |-> want.margin,
     risk_level |-> want.risk_level]

Analyze(r) == op[r] = "analyze"
Upsert(r) == op[r] = "upsert"
CompletionFailed(r) == reply[r].kind \in {"raise", "nocontent"}

(***************************************************************************)
(* Claims                                                                  *)
(***************************************************************************)
\* C1: an analyze request whose completion call raises or fails ends with a
\* 500 response, and no insert into analyses is ever attempted for it.
C1_CompletionFailureIs500 ==
    \A r \in Reqs :
        CompletionFailed(r) =>
            /\ pc[r] = "done"
            /\ response[r] = ErrorResponse(500, "OpenAI error")
            /\ insertLog[r] = <<>>
            /\ storeOutcome[r] = "none"

C1_Witness ==
    \E r, q \in Reqs :
        /\ reply[r] = ReplyRaise /\ pc[r] = "done"
        /\ reply[q] = ReplyNoContent /\ pc[q] = "done"

\* r's reply was answered with the fixed default record: analyze did not
\* error on it, handed the store one row carrying the record, and returns
\* the record when the insert succeeds.
FellBack(r) ==
    LET want == ExpectedFallback(py_strip(reply[r].text))
    IN  /\ pc[r] \in {"await_insert", "done"}
        /\ result[r] = want
        /\ insertLog[r] = <<ExpectedRow(r, want)>>
        /\ pc[r] = "done" => storeOutcome[r] # "none"
        /\ storeOutcome[r] = "ok" => response[r] = AnalyzeOutput(want)

\* C2: for every reply whose text is no usable JSON object (no JSON at all, or
\* JSON of another shape: an array, a number, a string, null), analyze does
\* not error on the reply; it substitutes the fixed default record with the
\* first 500 characters of the text as reasoning, persists and returns it.
C2_UnusableReplyFallsBack ==
    \A r \in Reqs :
        reply[r] \in NonJsonReplies \cup WrongShapeReplies => FellBack(r)

\* The part of C2 the code keeps: a reply that is no JSON at all falls back.
NonJsonReplyFallsBack ==
    \A r \in Reqs : reply[r] \in NonJsonReplies => FellBack(r)

\* What the code does with JSON of another shape: data.get raises, the
\* request ends with the 500 of an unhandled exception and no insert.
WrongShapeReplyIsUnhandled ==
    \A r \in Reqs :
        reply[r] \in WrongShapeReplies =>
            /\ pc[r] = "done"
            /\ response[r] = Unhandled
            /\ insertLog[r] = <<>>

\* C3: for a reply that is a JSON object with all five keys and well-typed
\* values, and an insert that succeeds, the AnalysisResult returned equals
\* the five values, and the single row inserted into analyses carries the
\* same score, recommended_bid, margin and risk_level at top level, the
\* request's user_email, and the reasoning under raw_input.ai_reasoning.
C3_FullReplyReturnedAndStored ==
    \A r \in Reqs : \A w \in FullWants :
        (reply[r] = w[1] /\ storeOutcome[r] = "ok") =>
            /\ response[r] = AnalyzeOutput(w[2])
            /\ Len(insertLog[r]) = 1
            /\ LET row == insertLog[r][1]
               IN  /\ row.score = w[2].score
                   /\ row.recommended_bid = w[2].recommended_bid
                   /\ row.margin = w[2].margin
                   /\ row.risk_level = w[2].risk_level
                   /\ row.user_email = Field(r, KeyUserEmail)
                   /\ row.raw_input.ai_reasoning = w[2].reasoning
                   /\ analyses = SetToBag({row})

C3_Witness ==
    \E r \in Reqs :
        /\ reply[r] = AltReply
        /\ request[r] = RawFull
        /\ storeOutcome[r] = "ok"
        /\ pc[r] = "done"

\* C4: an analyze request whose completion call succeeds and whose insert
\* reports an error ends with a 500 response and the computed AnalysisResult
\* is not returned; an AnalysisResult is returned with success only if the
\* insert was attempted and reported no error.
C4_InsertErrorIs500 ==
    \A r \in Reqs :
        /\ (Analyze(r) /\ storeOutcome[r] = "error") =>
              /\ pc[r] = "done"
              /\ response[r] = ErrorResponse(500, "supabase insert error")
        /\ response[r].kind = "analysis" =>
              /\ response[r].status = 200
              /\ Len(insertLog[r]) = 1
              /\ storeOutcome[r] = "ok"

C4_Witness ==
    \E r \in Reqs :
        /\ Analyze(r)
        /\ reply[r].kind = "text"
        /\ result[r] = Sample
        /\ storeOutcome[r] = "error"
        /\ pc[r] = "done"

\* C5: an analyze request whose user_email is missing or empty ends with a
\* 400 response and makes no completion-API call and no store call.
C5_NoUserEmailIs400 ==
    \A r \in Reqs :
        (Analyze(r) /\ ~py_truthy(Field(r, KeyUserEmail))) =>
            /\ pc[r] = "done"
            /\ response[r].status = 400
            /\ completionLog[r] = <<>>
            /\ insertLog[r] = <<>>
            /\ storeOutcome[r] = "none"

\* What the code does: an empty user_email reaches analyze and gets the 400;
\* a missing (or null) one fails body validation and gets the 422; neither
\* makes a call.
NoUserEmailIs400Or422 ==
    \A r \in Reqs :
        (Analyze(r) /\ ~py_truthy(Field(r, KeyUserEmail))) =>
            /\ pc[r] = "done"
            /\ response[r] = IF Field(r, KeyUserEmail).t = "str"
                             THEN ErrorResponse(400, "user_email is required")
                             ELSE ValidationError
            /\ completionLog[r] = <<>>
            /\ insertLog[r] = <<>>
            /\ storeOutcome[r] = "none"

\* C6: for a reply that is a JSON object with any subset of the five keys
\* absent, each absent key of the returned AnalysisResult takes its static
\* default (60, 30000, 15, "MEDIUM", "") and each present key the value of
\* the reply; a reply missing only margin yields margin 15.
C6_AbsentKeysTakeDefaults ==
    \A r \in Reqs : \A w \in ObjectWants :
        reply[r] = w[1] =>
            /\ pc[r] \in {"await_insert", "done"}
            /\ result[r] = w[2]
            /\ Len(insertLog[r]) = 1
            /\ storeOutcome[r] = "ok" => response[r] = AnalyzeOutput(w[2])

C6_Witness ==
    \E r \in Reqs :
        /\ reply[r] = ObjectReply(AllKeys \ {KeyMargin})
        /\ response[r].kind = "analysis"
        /\ response[r].result.margin = 15
        /\ response[r].result.score = Sample.score

\* C7: a single analyze request makes at most one completion call and at
\* most one insert (no retry after either fails), and the insert happens only
\* after the completion call has returned successfully.
C7_OneCallEachInOrder ==
    \A r \in Reqs :
        /\ Len(completionLog[r]) <= 1
        /\ Len(insertLog[r]) <= 1
        /\ Len(insertLog[r]) = 1 =>
              /\ Len(completionLog[r]) = 1
              /\ reply[r].kind = "text"
        /\ (CompletionFailed(r) \/ storeOutcome[r] \in {"error", "raise"}) =>
              pc[r] = "done"

C7_Witness ==
    \E r, q \in Reqs :
        /\ Analyze(r) /\ storeOutcome[r] = "error" /\ pc[r] = "done"
        /\ Len(insertLog[r]) = 1 /\ Len(completionLog[r]) = 1
        /\ Analyze(q) /\ CompletionFailed(q) /\ Len(completionLog[q]) = 1

\* C8: for an upsert payload with a non-empty email and a store that reports
\* no error, upsert_user returns {ok: true} and the users store receives
\* exactly one upsert call, keyed on that email and carrying the payload's
\* name (no name when absent).
C8_UpsertAcknowledged ==
    \A r \in Reqs :
        (Upsert(r) /\ py_truthy(Field(r, KeyEmail))) =>
            /\ upsertLog[r] = <<[email |-> Field(r, KeyEmail),
                                 name |-> IF HasKey(request[r], KeyName)
                                          THEN Field(r, KeyName) ELSE PyNone]>>
            /\ storeOutcome[r] = "ok" =>
                  /\ pc[r] = "done"
                  /\ response[r] = AckResponse

C8_Witness ==
    \E r, q \in Reqs :
        /\ Upsert(r) /\ HasKey(request[r], KeyName)
        /\ storeOutcome[r] = "ok" /\ pc[r] = "done"
        /\ Upsert(q) /\ ~HasKey(request[q], KeyName)
        /\ storeOutcome[q] = "ok" /\ pc[q] = "done"

\* C9: an upsert payload whose email is missing or empty ends with a 400
\* response; upsert_user makes no call to the users store and the step
\* leaves the users table unchanged.
C9_NoEmailIs400 ==
    [][\A r \in Reqs :
          (op'[r] = "upsert" /\ ~py_truthy(dict_get(request'[r], KeyEmail, PyNone))) =>
              /\ pc'[r] = "done"
              /\ response'[r] = ErrorResponse(400, "email is required")
              /\ upsertLog'[r] = <<>>
              /\ storeOutcome'[r] = "none"
              /\ pc[r] = "idle" => users' = users]_vars

C9_Witness ==
    \E r, q \in Reqs :
        /\ Upsert(r) /\ ~HasKey(request[r], KeyEmail) /\ pc[r] = "done"
        /\ Upsert(q) /\ HasKey(request[q], KeyEmail)
        /\ ~py_truthy(Field(q, KeyEmail)) /\ pc[q] = "done"

\* C10: under any interleaving of concurrent analyze requests, every row
\* handed to analyses pairs the user_email and lot fields of one request with
\* the result of that request's own reply, every successful response is the
\* result of its own reply, and the rows inserted are one per request that
\* reached the insert step.
ReachedInsert(r) ==
    Analyze(r) /\ (pc[r] = "await_insert" \/ storeOutcome[r] # "none")
Stored == {r \in Reqs : Analyze(r) /\ storeOutcome[r] = "ok"}

C10_RequestsIsolated ==
    /\ \A r \in Reqs :
          /\ Len(insertLog[r]) = IF ReachedInsert(r) THEN 1 ELSE 0
          /\ ReachedInsert(r) => \E w \in Wants : reply[r] = w[1]
          /\ \A w \in Wants :
                (Analyze(r) /\ reply[r] = w[1]) =>
                    /\ insertLog[r] = <<ExpectedRow(r, w[2])>>
                    /\ response[r].kind = "analysis" => response[r].result = w[2]
    /\ BagCardinality(analyses) = Cardinality(Stored)
    /\ \A row \in BagToSet(analyses) :
          CopiesIn(row, analyses) =
              Cardinality({r \in Stored : insertLog[r] = <<row>>})

C10_Witness ==
    \E r, q \in Reqs :
        /\ request[r] = RawFull /\ reply[r] = ObjectReply(AllKeys)
        /\ request[q] = RawMinimal /\ reply[q] = TextReply(ProseText)
        /\ storeOutcome[r] = "ok" /\ storeOutcome[q] = "ok"
        /\ pc[r] = "done" /\ pc[q] = "done"
        /\ BagCardinality(analyses) = 2
====
